---------------------------- MODULE Spec2Model ----------------------------
(***************************************************************************)
(* The Gradient Puzzle demo (vhamz/NN2): a fixed noise image is fed to a   *)
(* baseline and a student network that are trained in the browser.         *)
(*                                                                         *)
(* Four variants of the program are modelled, selected by `variant`:       *)
(*   "app1"  src/app.js lines 1-347                                        *)
(*   "app2"  src/app.js lines 349-715                                      *)
(*   "p000"  src/unnamed/part_000                                          *)
(*   "p001"  src/unnamed/part_001                                          *)
(*                                                                         *)
(* Objects of the tensor library (models, optimizers, tensors) live in     *)
(* `heap`; the fields of the JS object `state` hold indices into it.       *)
(* Handlers are written as functions from a world record to a world        *)
(* record so that one handler can call another, as the code does.          *)
(***************************************************************************)
EXTENDS Integers, Sequences, FiniteSets, TLC

VARIABLES
  variant,          \* which source file runs in the page
  loaded,           \* the top-level script (init) has run
  state,            \* the JS object `state`
  heap,             \* library objects, in allocation order
  log,              \* the DOM log panel, most recent entry first (truncated)
  timers,           \* pending setTimeout(loop, ...) callbacks
  checked,          \* value of the checked 'arch' radio, or NoArch
  lastStep,         \* the most recent trainStep since the last resetModels
  lastLoop,         \* the most recent loop invocation since the last resetModels
  lastArch,         \* archType resolved by the most recent resetModels
  autoOnSinceReset, \* auto-training was turned on after the last resetModels
  imgA, imgB,       \* two images (yTrue, yPred) for the loss functions
  lossOut           \* observation of the last loss evaluation

vars == <<variant, loaded, state, heap, log, timers, checked,
          lastStep, lastLoop, lastArch, autoOnSinceReset,
          imgA, imgB, lossOut>>

uiVars == <<variant, loaded, state, heap, log, timers, checked,
            lastStep, lastLoop, lastArch, autoOnSinceReset>>

lossVars == <<imgA, imgB, lossOut>>

-----------------------------------------------------------------------------
(* Bounds of the model *)

MaxResets == 1     \* resetModels calls after the one of init
MaxSteps == 5      \* trainSteps per generation of models
MaxTimers == 1     \* pending loop timers
MaxLog == 3        \* log entries kept (most recent first)

-----------------------------------------------------------------------------
(* Values *)

Null == 0          \* JS null: no heap index

NoArch == "none"   \* no 'arch' radio is checked

Variants == {"app1", "app2", "p000", "p001"}

IsApp(v) == v \in {"app1", "app2"}

HasStep(v) == v \in {"app1", "app2", "p001"}

KnownArchs == {"compression", "transformation", "expansion"}

\* Values an 'arch' radio can carry.  app.js has a branch for values it does
\* not know, among them the empty string, which `!archType` takes for an
\* absent argument; part_000 and part_001 have none and are run with the
\* three values they handle.
RadioValues(v) == IF IsApp(v) THEN KnownArchs \cup {"other", ""} ELSE KnownArchs

\* Radio states the page can load with.  part_000 and part_001 read
\* `.value` of the checked radio unconditionally, so they load only with a
\* checked radio.
InitialChecked(v) == IF IsApp(v) THEN RadioValues(v) \cup {NoArch} ELSE RadioValues(v)

-----------------------------------------------------------------------------
(* Layers and models *)

Flatten == [type |-> "flatten", units |-> 0, activation |-> "", targetShape |-> <<16, 16, 1>>]

Dense(u, act) == [type |-> "dense", units |-> u, activation |-> act, targetShape |-> <<>>]

Reshape == [type |-> "reshape", units |-> 0, activation |-> "", targetShape |-> <<16, 16, 1>>]

\* a baseline whose hidden layer is as wide as the input
createBaselineModel_wide == <<Flatten, Dense(256, "relu"), Dense(256, "sigmoid"), Reshape>>

createBaselineModel == <<Flatten, Dense(64, "relu"), Dense(256, "sigmoid"), Reshape>>

\* [threw, layers]: `threw` is the `throw new Error("Unknown architecture
\* type")` of app.js; part_000/part_001 add no dense layer for other values.
createStudentModel(v, archType) ==
  IF archType = "compression"
    THEN [threw |-> FALSE,
          layers |-> <<Flatten, Dense(64, "relu"), Dense(256, "sigmoid"), Reshape>>]
  ELSE IF archType = "transformation"
    THEN [threw |-> FALSE,
          layers |-> IF IsApp(v)
                       THEN <<Flatten, Dense(256, "relu"), Dense(256, "sigmoid"), Reshape>>
                       ELSE <<Flatten, Dense(256, "relu"), Dense(256, "relu"),
                              Dense(256, "sigmoid"), Reshape>>]
  ELSE IF archType = "expansion"
    THEN [threw |-> FALSE,
          layers |-> IF IsApp(v)
                       THEN <<Flatten, Dense(512, "relu"), Dense(256, "sigmoid"), Reshape>>
                       ELSE <<Flatten, Dense(512, "relu"), Dense(512, "relu"),
                              Dense(256, "sigmoid"), Reshape>>]
  ELSE IF IsApp(v)
    THEN [threw |-> TRUE, layers |-> <<>>]
    ELSE [threw |-> FALSE, layers |-> <<Flatten, Reshape>>]

-----------------------------------------------------------------------------
(* Heap objects *)

NewTensor == [kind |-> "tensor", disposed |-> FALSE, layers |-> <<>>,
              updates |-> 0, iterations |-> 0, fed |-> {}]

\* tf.sequential() with its layers; `updates` counts the gradient updates
\* its weights have received.
NewModel(layers) == [kind |-> "model", disposed |-> FALSE, layers |-> layers,
                     updates |-> 0, iterations |-> 0, fed |-> {}]

\* tf.train.adam(lr): `iterations` is the optimizer's iteration counter
\* (bias correction), `fed` the models whose gradients its moment
\* accumulators have absorbed.
NewOptimizer == [kind |-> "optimizer", disposed |-> FALSE, layers |-> <<>>,
                 updates |-> 0, iterations |-> 0, fed |-> {}]

Alloc(w, obj) == [w EXCEPT !.heap = Append(@, obj)]

LastId(w) == Len(w.heap)

\* dispose(): the object's contents are released
Dispose(w, id) ==
  [w EXCEPT !.heap[id] = [kind |-> @.kind, disposed |-> TRUE, layers |-> <<>>,
                          updates |-> 0, iterations |-> 0, fed |-> {}]]

\* optimizer.applyGradients(grads) with the gradients of model m
applyGradients(w, opt, m) ==
  [w EXCEPT !.heap[opt].iterations = @ + 1,
            !.heap[opt].fed = @ \cup {m},
            !.heap[m].updates = @ + 1]

-----------------------------------------------------------------------------
(* The world record *)

World == [variant |-> variant, loaded |-> loaded, state |-> state, heap |-> heap,
          log |-> log, timers |-> timers, checked |-> checked,
          lastStep |-> lastStep, lastLoop |-> lastLoop,
          lastArch |-> lastArch, autoOnSinceReset |-> autoOnSinceReset]

Becomes(w) ==
  /\ variant' = w.variant
  /\ loaded' = w.loaded
  /\ state' = w.state
  /\ heap' = w.heap
  /\ log' = w.log
  /\ timers' = w.timers
  /\ checked' = w.checked
  /\ lastStep' = w.lastStep
  /\ lastLoop' = w.lastLoop
  /\ lastArch' = w.lastArch
  /\ autoOnSinceReset' = w.autoOnSinceReset

NoStep == [caller |-> "none", step |-> 0, autoAtEntry |-> FALSE, outcome |-> "none",
           rendered |-> FALSE, input |-> Null,
           baseModel |-> Null, studModel |-> Null, baseOpt |-> Null, studOpt |-> Null]

NoLoop == [flagAtEntry |-> FALSE, trained |-> FALSE, armed |-> FALSE, flagAtArm |-> FALSE]

InitialState == [step |-> 0, isAutoTraining |-> FALSE, xInput |-> Null,
                 baselineModel |-> Null, studentModel |-> Null, optimizer |-> Null,
                 baselineOptimizer |-> Null, studentOptimizer |-> Null]


-----------------------------------------------------------------------------
(* Helpers of the page *)

\* A log entry; of the interpolated values only the architecture is kept
Entry(msg, isError, arch) == [msg |-> msg, isError |-> isError, arch |-> arch]

Truncate(q) == IF Len(q) > MaxLog THEN SubSeq(q, 1, MaxLog) ELSE q

\* log(msg, isError): el.prepend(span)
logMsg(w, entry) == [w EXCEPT !.log = Truncate(<<entry>> \o @)]

stopAutoTrain(w) == [w EXCEPT !.state.isAutoTraining = FALSE]

\* render(): predicts with the current models and draws both canvases; the
\* drawing, and the updateLossDisplay that follows `await render()`, write
\* only to the page and change nothing the program reads back.
render(w) == w

-----------------------------------------------------------------------------
(* trainStep *)

BaseOptimizerOf(w) ==
  IF IsApp(w.variant) THEN w.state.optimizer ELSE w.state.baselineOptimizer

StudentOptimizerOf(w) ==
  IF IsApp(w.variant) THEN w.state.optimizer ELSE w.state.studentOptimizer

\* rendering throttled whether or not auto-training is on
ShouldRender_always5(v, step, auto) ==
  IF v = "p000" THEN TRUE ELSE step % 5 = 0

\* `state.step % 5 === 0 || !state.isAutoTraining`; part_000 always renders
ShouldRender(v, step, auto) ==
  IF v = "p000" THEN TRUE ELSE (step % 5 = 0 \/ ~auto)

\* the catch block without its stopAutoTrain()
studentErrorBranch_noStop(w, obs) ==
  [logMsg(w, Entry("Error in Student Training", TRUE, ""))
     EXCEPT !.lastStep = [obs EXCEPT !.outcome = "studentError"]]

\* the catch block taking back the step of a failed trainStep
studentErrorBranch_uncounted(w, obs) ==
  [stopAutoTrain(logMsg(w, Entry("Error in Student Training", TRUE, "")))
     EXCEPT !.lastStep = [obs EXCEPT !.outcome = "studentError"],
            !.state.step = @ - 1]

\* the catch block of trainStep (app.js)
studentErrorBranch(w, obs) ==
  [stopAutoTrain(logMsg(w, Entry("Error in Student Training", TRUE, "")))
     EXCEPT !.lastStep = [obs EXCEPT !.outcome = "studentError"]]

\* caller: "manual" (Train button), "toggle" (loop called by the toggle),
\* "timer" (loop called by a timer).  throws: the student's gradient
\* computation or update throws (app.js wraps it in try/catch).
trainStep(w, caller, throws) ==
  LET v == w.variant
      w1 == IF HasStep(v) THEN [w EXCEPT !.state.step = @ + 1] ELSE w
      obs == [caller |-> caller, step |-> w1.state.step,
              autoAtEntry |-> w.state.isAutoTraining, outcome |-> "done",
              rendered |-> FALSE, input |-> w.state.xInput,
              baseModel |-> w.state.baselineModel, studModel |-> w.state.studentModel,
              baseOpt |-> BaseOptimizerOf(w), studOpt |-> StudentOptimizerOf(w)]
  IN IF IsApp(v) /\ w.state.studentModel = Null
       THEN [stopAutoTrain(logMsg(w1, Entry("Error: Student model not initialized properly.",
                                            TRUE, "")))
               EXCEPT !.lastStep = [obs EXCEPT !.outcome = "notInitialized"]]
       ELSE LET w2 == applyGradients(w1, BaseOptimizerOf(w1), w1.state.baselineModel)
            IN IF IsApp(v) /\ throws
                 THEN studentErrorBranch(w2, obs)
                 ELSE LET w3 == applyGradients(w2, StudentOptimizerOf(w2), w2.state.studentModel)
                          w4 == IF IsApp(v)
                                  THEN logMsg(w3, Entry("Step", FALSE, ""))
                                  ELSE w3
                          show == ShouldRender(v, w4.state.step, w4.state.isAutoTraining)
                          w5 == IF show THEN render(w4) ELSE w4
                      IN [w5 EXCEPT !.lastStep = [obs EXCEPT !.rendered = show]]

-----------------------------------------------------------------------------
(* Auto training *)

\* loop(): via is "toggle" or "timer"
loop(w, via, throws) ==
  IF w.state.isAutoTraining
    THEN LET w1 == trainStep(w, via, throws)
         IN [w1 EXCEPT !.timers = @ + 1,
                       !.lastLoop = [flagAtEntry |-> TRUE, trained |-> TRUE, armed |-> TRUE,
                                     flagAtArm |-> w1.state.isAutoTraining]]
    ELSE [w EXCEPT !.lastLoop = NoLoop]

\* toggleAutoTrain (app.js, part_001), toggleAuto (part_000)
toggleAutoTrain(w, throws) ==
  IF IsApp(w.variant)
    THEN IF w.state.isAutoTraining
           THEN stopAutoTrain(w)
           ELSE loop([w EXCEPT !.state.isAutoTraining = TRUE, !.autoOnSinceReset = TRUE],
                     "toggle", throws)
    ELSE LET w1 == [w EXCEPT !.state.isAutoTraining = ~@,
                             !.autoOnSinceReset = @ \/ ~w.state.isAutoTraining]
         IN IF w1.state.isAutoTraining THEN loop(w1, "toggle", throws) ELSE w1

-----------------------------------------------------------------------------
(* resetModels *)

\* Arguments resetModels can be called with
StringArg(s) == [type |-> "string", value |-> s]

EventArg == [type |-> "object", value |-> ""]

NoArg == [type |-> "undefined", value |-> ""]

\* `checked ? checked.value : <default>`: "transformation" in the first
\* app.js, "compression" in the second
DefaultArch(v) == IF v = "app1" THEN "transformation" ELSE "compression"

\* ResolveArch without the `typeof archType !== "string"` test: the click
\* Event is truthy and is used as the architecture
ResolveArch_eventAsArch(w, arg) ==
  IF IsApp(w.variant)
    THEN LET a == IF arg.type = "object" THEN "[object Event]" ELSE arg.value
         IN IF a = ""
              THEN (IF w.checked # NoArch THEN w.checked ELSE DefaultArch(w.variant))
              ELSE a
    ELSE w.checked

\* The archType resetModels ends up with
ResolveArch(w, arg) ==
  IF IsApp(w.variant)
    THEN LET a == IF arg.type # "string" THEN "" ELSE arg.value
         IN IF a = ""
              THEN (IF w.checked # NoArch THEN w.checked ELSE DefaultArch(w.variant))
              ELSE a
    ELSE w.checked

DisposeField(w, id) == IF id # Null THEN Dispose(w, id) ELSE w

\* resetModels that leaves auto-training running
StopForReset_none(w) == w

\* `if (state.isAutoTraining) stopAutoTrain()` of app.js; part_000 and
\* part_001 leave the flag alone
StopForReset(w) ==
  IF IsApp(w.variant) /\ w.state.isAutoTraining THEN stopAutoTrain(w) ELSE w

\* DisposeOld with the input tensor disposed along with the old resources
DisposeOld_alsoInput(w) ==
  LET w1 == DisposeField(DisposeField(DisposeField(w, w.state.baselineModel),
                                      w.state.studentModel), w.state.xInput)
  IN IF IsApp(w.variant)
       THEN [DisposeField(w1, w1.state.optimizer)
               EXCEPT !.state.baselineModel = Null, !.state.studentModel = Null,
                      !.state.optimizer = Null]
       ELSE w1

\* "Dispose old resources": app.js disposes both models and the optimizer and
\* nulls the fields, part_000 and part_001 dispose the two models only
DisposeOld(w) ==
  LET w1 == DisposeField(DisposeField(w, w.state.baselineModel), w.state.studentModel)
  IN IF IsApp(w.variant)
       THEN [DisposeField(w1, w1.state.optimizer)
               EXCEPT !.state.baselineModel = Null, !.state.studentModel = Null,
                      !.state.optimizer = Null]
       ELSE w1

\* CreateModels whose catch block logs but installs no student
CreateModels_noFallback(w, archType) ==
  LET w1 == Alloc(w, NewModel(createBaselineModel))
      w2 == [w1 EXCEPT !.state.baselineModel = LastId(w1)]
      made == createStudentModel(w.variant, archType)
  IN IF made.threw
       THEN logMsg(w2, Entry("Error creating model", TRUE, archType))
       ELSE LET w3 == Alloc(w2, NewModel(made.layers))
            IN [w3 EXCEPT !.state.studentModel = LastId(w3)]

\* "Create New Models": the student falls back to the baseline architecture
\* when createStudentModel throws
CreateModels(w, archType) ==
  LET w1 == Alloc(w, NewModel(createBaselineModel))
      w2 == [w1 EXCEPT !.state.baselineModel = LastId(w1)]
      made == createStudentModel(w.variant, archType)
      w3 == IF made.threw
              THEN Alloc(logMsg(w2, Entry("Error creating model", TRUE, archType)),
                         NewModel(createBaselineModel))
              ELSE Alloc(w2, NewModel(made.layers))
  IN [w3 EXCEPT !.state.studentModel = LastId(w3)]

\* tf.train.adam(...): one optimizer in app.js, one per model in part_000
\* and part_001
CreateOptimizers(w) ==
  IF IsApp(w.variant)
    THEN LET a == Alloc(w, NewOptimizer)
         IN [a EXCEPT !.state.optimizer = LastId(a)]
    ELSE LET a == Alloc(w, NewOptimizer)
             b == Alloc(a, NewOptimizer)
         IN [b EXCEPT !.state.baselineOptimizer = LastId(a),
                      !.state.studentOptimizer = LastId(b)]

resetModels(w, arg) ==
  LET v == w.variant
      w1 == StopForReset(w)
      archType == ResolveArch(w1, arg)
      w2 == CreateOptimizers(CreateModels(DisposeOld(w1), archType))
      w3 == IF HasStep(v) THEN [w2 EXCEPT !.state.step = 0] ELSE w2
      w4 == IF IsApp(v) THEN logMsg(w3, Entry("Models reset", FALSE, archType)) ELSE w3
  IN [render(w4) EXCEPT !.lastArch = archType, !.autoOnSinceReset = FALSE,
                        !.lastStep = NoStep, !.lastLoop = NoLoop]

\* init() of app.js and part_001; the top-level script of part_000
init(w) ==
  LET a == Alloc(w, NewTensor)
      w1 == [a EXCEPT !.state.xInput = LastId(a)]
      w2 == resetModels(w1, NoArg)
      w3 == IF IsApp(w.variant) THEN logMsg(w2, Entry("Initialized", FALSE, "")) ELSE w2
  IN [w3 EXCEPT !.loaded = TRUE]

-----------------------------------------------------------------------------
(* Actions: the events of the page *)

\* A further trainStep stays within the bounds of the model
CanTrain ==
  /\ state.baselineModel # Null
  /\ heap[state.baselineModel].updates < MaxSteps

\* resetModels calls so far, counted by the baseline and student models made
ResetsDone == Cardinality({i \in 1..Len(heap) : heap[i].kind = "model"}) \div 2

CanReset == ResetsDone <= MaxResets

PageLoad ==
  /\ ~loaded
  /\ Becomes(init(World))
  /\ UNCHANGED lossVars

\* click on "Train step"
ClickTrain ==
  /\ loaded
  /\ CanTrain
  /\ \E throws \in BOOLEAN : Becomes(trainStep(World, "manual", throws))
  /\ UNCHANGED lossVars

\* click on "Auto train"
ClickAuto ==
  /\ loaded
  /\ ~state.isAutoTraining => (CanTrain /\ timers < MaxTimers)
  /\ \E throws \in BOOLEAN : Becomes(toggleAutoTrain(World, throws))
  /\ UNCHANGED lossVars

\* click on "Reset": the handler receives the click Event
ClickReset ==
  /\ loaded
  /\ CanReset
  /\ Becomes(resetModels(World, EventArg))
  /\ UNCHANGED lossVars

\* the user checks another 'arch' radio; app.js passes e.target.value,
\* part_001 calls resetModels() which reads the checked radio
ChangeArch ==
  /\ loaded
  /\ CanReset
  /\ \E a \in RadioValues(variant) \ {checked} :
       Becomes(resetModels([World EXCEPT !.checked = a], StringArg(a)))
  /\ UNCHANGED lossVars

\* a setTimeout(loop, autoTrainSpeed) callback runs
TimerFires ==
  /\ timers > 0
  /\ state.isAutoTraining => CanTrain
  /\ \E throws \in BOOLEAN :
       Becomes(loop([World EXCEPT !.timers = @ - 1], "timer", throws))
  /\ UNCHANGED lossVars

NoImage == <<>>

NoLoss == [kind |-> "none"]

Init ==
  /\ variant \in Variants
  /\ loaded = FALSE
  /\ state = InitialState
  /\ heap = <<>>
  /\ log = <<>>
  /\ timers = 0
  /\ checked \in InitialChecked(variant)
  /\ lastStep = NoStep
  /\ lastLoop = NoLoop
  /\ lastArch = NoArch
  /\ autoOnSinceReset = FALSE
  /\ imgA = NoImage
  /\ imgB = NoImage
  /\ lossOut = NoLoss

Next ==
  \/ PageLoad
  \/ ClickTrain
  \/ ClickAuto
  \/ ClickReset
  \/ ChangeArch
  \/ TimerFires

Spec == Init /\ [][Next]_vars

-----------------------------------------------------------------------------
(* Loss functions.  Tensor values are exact rationals [n, d] with d > 0;   *)
(* an image is a sequence of Height rows of Width pixels (the 16 x 16      *)
(* image of the program, scaled down): a top and a bottom row of Width     *)
(* pixels that are black (0) or white (1), the ends of the range [0, 1]    *)
(* of tf.randomUniform and of the sigmoid output.                          *)

Width == 2         \* columns of an image (16 in the program)

Rows == {1, 2}

Height == Cardinality(Rows)

RECURSIVE GCD(_, _)
GCD(a, b) == IF b = 0 THEN a ELSE GCD(b, a % b)

Abs(n) == IF n < 0 THEN -n ELSE n

\* the rational n/d in lowest terms
Rat(n, d) == LET g == GCD(Abs(n), d) IN [n |-> n \div g, d |-> d \div g]

RAdd(p, q) == Rat(p.n * q.d + q.n * p.d, p.d * q.d)

RMul(p, q) == Rat(p.n * q.n, p.d * q.d)

REq(p, q) == p.n * q.d = q.n * p.d

RLess(p, q) == p.n * q.d < q.n * p.d

Pixels == {0, 1}

Images == [1..Height -> [1..Width -> Pixels]]

\* reshape([-1]) / flatten(): row-major
RECURSIVE Flat(_)
Flat(img) == IF img = <<>> THEN <<>> ELSE Head(img) \o Flat(Tail(img))

RECURSIVE Sum(_)
Sum(q) == IF q = <<>> THEN 0 ELSE Head(q) + Sum(Tail(q))

\* tf.mean of a non-empty tensor
Mean(q) == Rat(Sum(q), Len(q))

Square(q) == [i \in 1..Len(q) |-> q[i] * q[i]]

Sub(p, q) == [i \in 1..Len(p) |-> p[i] - q[i]]

\* insert x into an ascending sequence
RECURSIVE Insert(_, _)
Insert(x, q) ==
  IF q = <<>> THEN <<x>>
  ELSE IF x <= Head(q) THEN <<x>> \o q
  ELSE <<Head(q)>> \o Insert(x, Tail(q))

\* tf.sort(t): ascending
RECURSIVE Sort(_)
Sort(q) == IF q = <<>> THEN <<>> ELSE Insert(Head(q), Sort(Tail(q)))

\* index of the first largest element
RECURSIVE ArgMax(_)
ArgMax(q) ==
  IF Len(q) = 1 THEN 1
  ELSE LET r == ArgMax(Tail(q)) + 1 IN IF q[1] >= q[r] THEN 1 ELSE r

Remove(q, i) == SubSeq(q, 1, i - 1) \o SubSeq(q, i + 1, Len(q))

\* tf.topk(t, k).values: the k largest entries, descending
RECURSIVE TopK(_, _)
TopK(q, k) ==
  IF k = 0 \/ q = <<>> THEN <<>>
  ELSE LET i == ArgMax(q) IN <<q[i]>> \o TopK(Remove(q, i), k - 1)

\* tf.losses.meanSquaredError(yTrue, yPred): mean of the squared differences
mse(yTrue, yPred) == Mean(Square(Sub(Flat(yTrue), Flat(yPred))))

\* sortedMSE that sorts the prediction only
sortedMSE_predOnly(v, yTrue, yPred) ==
  LET trueFlat == Flat(yTrue)
      predFlat == Flat(yPred)
  IN IF IsApp(v)
       THEN Mean(Square(Sub(trueFlat, TopK(predFlat, Len(predFlat)))))
       ELSE Mean(Square(Sub(trueFlat, Sort(predFlat))))

\* app.js sorts both arguments descending with topk, part_000 and part_001
\* ascending with sort
sortedMSE(v, yTrue, yPred) ==
  LET trueFlat == Flat(yTrue)
      predFlat == Flat(yPred)
  IN IF IsApp(v)
       THEN Mean(Square(Sub(TopK(trueFlat, Len(trueFlat)), TopK(predFlat, Len(predFlat)))))
       ELSE Mean(Square(Sub(Sort(trueFlat), Sort(predFlat))))

\* smoothness with absolute instead of squared differences
smoothness_abs(y) ==
  LET diffX == Flat([i \in 1..Height |-> [j \in 1..(Width - 1) |-> Abs(y[i][j] - y[i][j + 1])]])
      diffY == Flat([i \in 1..(Height - 1) |-> [j \in 1..Width |-> Abs(y[i][j] - y[i + 1][j])]])
  IN RAdd(Mean(diffX), Mean(diffY))

\* slice(..., size Width-1 on the column axis) minus the slice shifted by one,
\* and the same on the row axis
smoothness(y) ==
  LET diffX == Flat([i \in 1..Height |-> [j \in 1..(Width - 1) |-> y[i][j] - y[i][j + 1]]])
      diffY == Flat([i \in 1..(Height - 1) |-> [j \in 1..Width |-> y[i][j] - y[i + 1][j]]])
  IN RAdd(Mean(Square(diffX)), Mean(Square(diffY)))

\* tf.linspace(-1, 1, Width)[j], j = 1..Width, is MaskNum(j) / (Width - 1)
MaskNum(j) == 2 * (j - 1) - (Width - 1)

\* directionX whose mask runs over the rows and is broadcast over the columns
directionX_rowMask(y) ==
  LET prod == Flat([i \in 1..Height |->
                      [j \in 1..Width |-> y[i][j] * (2 * (i - 1) - (Height - 1))]])
  IN RMul(Rat(Sum(prod), Len(prod) * (Height - 1)), Rat(-1, 1))

\* tf.mean(yPred.mul(mask)).mul(-1): the mask is broadcast over the rows
directionX(y) ==
  LET prod == Flat([i \in 1..Height |-> [j \in 1..Width |-> y[i][j] * MaskNum(j)]])
  IN RMul(Rat(Sum(prod), Len(prod) * (Width - 1)), Rat(-1, 1))

\* weight of the smoothness term in studentLoss
Lambda1(v) ==
  IF v = "app1" THEN Rat(1, 10)
  ELSE IF v = "app2" THEN Rat(5, 1)
  ELSE IF v = "p000" THEN Rat(15, 100)
  ELSE Rat(8, 100)

\* weight of the direction term in studentLoss
Lambda2(v) ==
  IF v = "app1" THEN Rat(3, 10)
  ELSE IF v = "app2" THEN Rat(5, 1)
  ELSE IF v = "p000" THEN Rat(25, 100)
  ELSE Rat(18, 100)

\* studentLoss with a pixel-wise MSE term added
studentLoss_withMse(v, yTrue, yPred) ==
  LET lossSorted == sortedMSE(v, yTrue, yPred)
      lossSmooth == RMul(smoothness(yPred), Lambda1(v))
      lossDir == RMul(directionX(yPred), Lambda2(v))
  IN RAdd(RAdd(RAdd(mse(yTrue, yPred), lossSorted), lossSmooth), lossDir)

studentLoss(v, yTrue, yPred) ==
  LET lossSorted == sortedMSE(v, yTrue, yPred)
      lossSmooth == RMul(smoothness(yPred), Lambda1(v))
      lossDir == RMul(directionX(yPred), Lambda2(v))
  IN RAdd(RAdd(lossSorted, lossSmooth), lossDir)

\* the loss inside the baseline's tf.variableGrads of trainStep
baselineLoss(x, yPred) == mse(x, yPred)

\* What trainStep computes from the input x and a prediction y.  `op` names
\* the step that led here, prevSorted is sortedMSE before that step and
\* prevStudent the student's loss before a permutation of the input.
Evaluate(v, x, y, op, before) ==
  LET sorted == sortedMSE(v, x, y)
      student == studentLoss(v, x, y)
  IN [kind |-> "eval", op |-> op,
      sorted |-> sorted,
      student |-> student,
      baseline |-> baselineLoss(x, y),
      prevSorted |-> IF before.kind = "eval" THEN before.sorted ELSE sorted,
      prevStudent |-> IF before.kind = "eval" /\ op = "permuteTrue"
                        THEN before.student ELSE student]

\* the image with pixels (i1, j1) and (i2, j2) exchanged
SwapPixels(img, i1, j1, i2, j2) ==
  [img EXCEPT ![i1][j1] = img[i2][j2], ![i2][j2] = img[i1][j1]]

Cells == (1..Height) \X (1..Width)

\* pairs of cells that are neighbours in row-major order; every permutation
\* of the pixels is a sequence of exchanges of such pairs
CellPairs ==
  {p \in Cells \X Cells :
     (p[1][1] - 1) * Width + p[1][2] + 1 = (p[2][1] - 1) * Width + p[2][2]}

\* two pixels of the input are exchanged
PermuteTrue ==
  /\ lossOut.op = "init"
  /\ \E p \in CellPairs :
       /\ imgA' = SwapPixels(imgA, p[1][1], p[1][2], p[2][1], p[2][2])
       /\ imgB' = imgB
       /\ lossOut' = Evaluate(variant, imgA', imgB', "permuteTrue", lossOut)
  /\ UNCHANGED uiVars

\* two pixels of the prediction are exchanged
PermutePred ==
  /\ lossOut.op = "init"
  /\ \E p \in CellPairs :
       /\ imgB' = SwapPixels(imgB, p[1][1], p[1][2], p[2][1], p[2][2])
       /\ imgA' = imgA
       /\ lossOut' = Evaluate(variant, imgA', imgB', "permutePred", lossOut)
  /\ UNCHANGED uiVars

InitLoss ==
  /\ variant \in Variants
  /\ loaded = FALSE
  /\ state = InitialState
  /\ heap = <<>>
  /\ log = <<>>
  /\ timers = 0
  /\ checked = "compression"
  /\ lastStep = NoStep
  /\ lastLoop = NoLoop
  /\ lastArch = NoArch
  /\ autoOnSinceReset = FALSE
  /\ imgA \in Images
  /\ imgB \in Images
  /\ lossOut = Evaluate(variant, imgA, imgB, "init", NoLoss)

NextLoss ==
  \/ PermuteTrue
  \/ PermutePred

SpecLoss == InitLoss /\ [][NextLoss]_vars

-----------------------------------------------------------------------------
(* The shape terms of the student's loss on one prediction.  Pixel values   *)
(* are in units of 1/2: black, mid grey and white.                          *)

Grey == {0, 1, 2}

GreyImages == [1..Height -> [1..Width -> Grey]]

\* the image flipped left to right
Mirror(img) == [i \in 1..Height |-> [j \in 1..Width |-> img[i][Width + 1 - j]]]

\* What studentLoss computes from a prediction y besides sortedMSE; `before`
\* is the prediction this one was derived from.
Measure(y, op, before) ==
  [kind |-> "shape", op |-> op,
   direction |-> directionX(y),
   smooth |-> smoothness(y),
   prevImage |-> before,
   prevDirection |-> directionX(before)]

\* two pixels of one row of the prediction are exchanged
SwapInRow ==
  /\ lossOut.op = "init"
  /\ \E i \in 1..Height : \E j1, j2 \in 1..Width :
       /\ j1 < j2
       /\ imgB' = SwapPixels(imgB, i, j1, i, j2)
       /\ lossOut' = Measure(imgB', "swapInRow", imgB)
  /\ UNCHANGED <<uiVars, imgA>>

\* the prediction is mirrored horizontally
MirrorImage ==
  /\ lossOut.op = "init"
  /\ imgB' = Mirror(imgB)
  /\ lossOut' = Measure(imgB', "mirror", imgB)
  /\ UNCHANGED <<uiVars, imgA>>

InitImage ==
  /\ variant \in Variants
  /\ loaded = FALSE
  /\ state = InitialState
  /\ heap = <<>>
  /\ log = <<>>
  /\ timers = 0
  /\ checked = "compression"
  /\ lastStep = NoStep
  /\ lastLoop = NoLoop
  /\ lastArch = NoArch
  /\ autoOnSinceReset = FALSE
  /\ imgA = NoImage
  /\ imgB \in GreyImages
  /\ lossOut = Measure(imgB, "init", imgB)

NextImage ==
  \/ SwapInRow
  \/ MirrorImage

SpecImage == InitImage /\ [][NextImage]_vars

-----------------------------------------------------------------------------
(* Properties *)

Trained == lastStep.outcome \in {"done", "studentError"}

\* C1: in every trainStep the optimizer state used for the baseline's
\* gradients is disjoint from the one used for the student's: the two
\* updates go through different optimizers, each optimizer has absorbed the
\* gradients of one model only, and its iteration counter counts the
\* updates of that model alone.
C1_IndependentOptimizers ==
  lastStep.outcome = "done" =>
    /\ lastStep.baseOpt # lastStep.studOpt
    /\ heap[lastStep.baseOpt].fed \subseteq {lastStep.baseModel}
    /\ heap[lastStep.studOpt].fed \subseteq {lastStep.studModel}
    /\ heap[lastStep.baseOpt].iterations = heap[lastStep.baseModel].updates
    /\ heap[lastStep.studOpt].iterations = heap[lastStep.studModel].updates

\* C2: the input tensor is assigned once, by init, and from then on no
\* handler reassigns, disposes or modifies it; every trainStep predicts on
\* and trains both models against this tensor.
C2_InputFixed ==
  [][/\ state.xInput # Null =>
          /\ state'.xInput = state.xInput
          /\ heap'[state.xInput] = heap[state.xInput]
     /\ loaded' =>
          /\ state'.xInput # Null
          /\ heap'[state'.xInput] = NewTensor
     /\ lastStep'.outcome \in {"done", "studentError"} => lastStep'.input = state'.xInput]_vars

C2_Witness ==
  /\ state.xInput # Null
  /\ ResetsDone >= 2
  /\ lastStep.outcome = "done"
  /\ lastStep.input = state.xInput
  /\ ~heap[state.xInput].disposed

\* C3: the flag governs auto-training: the toggle turns it off when it is
\* on, and when it is off turns it on and enters loop with it on; a loop
\* invocation that finds it true calls trainStep and arms a timer, one that
\* finds it false does neither; and once the flag is false no timer is
\* armed.
C3_FlagGoverns ==
  [][/\ (ClickAuto /\ state.isAutoTraining) => ~state'.isAutoTraining
     /\ (ClickAuto /\ ~state.isAutoTraining) => lastLoop'.flagAtEntry
     /\ lastLoop'.flagAtEntry => (lastLoop'.trained /\ lastLoop'.armed)
     /\ ~lastLoop'.flagAtEntry => (~lastLoop'.trained /\ ~lastLoop'.armed)
     /\ lastLoop'.armed => lastLoop'.flagAtArm]_vars

\* a trainStep ran in this step
StepRan == lastStep' # lastStep /\ lastStep'.outcome # "none"

\* resetModels ran in this step (only it allocates)
ResetRan == Len(heap') > Len(heap)

\* C4: in app.js a throwing student update is caught: the error is logged,
\* auto-training is off when the handler returns, nothing is rendered, and
\* control returns to the caller (a calling loop goes on to arm its timer).
C4_StudentErrorCaught ==
  [][(IsApp(variant) /\ StepRan /\ lastStep'.outcome = "studentError") =>
       /\ log' # <<>>
       /\ Head(log').msg = "Error in Student Training"
       /\ Head(log').isError
       /\ ~state'.isAutoTraining
       /\ ~lastStep'.rendered
       /\ lastStep'.caller \in {"toggle", "timer"} => lastLoop'.armed]_vars

C4_Witness ==
  /\ IsApp(variant)
  /\ lastStep.outcome = "studentError"
  /\ lastStep.autoAtEntry
  /\ ~state.isAutoTraining
  /\ Head(log).msg = "Error in Student Training"

\* C5: in app.js resetModels always completes with a live baseline model, a
\* live student model, a fresh optimizer and step = 0; for an architecture
\* createStudentModel rejects, the error is logged and the student gets the
\* baseline architecture.
C5_ResetCompletes ==
  [][(IsApp(variant) /\ ResetRan) =>
       /\ state'.baselineModel # Null
       /\ state'.baselineModel > Len(heap)
       /\ heap'[state'.baselineModel].kind = "model"
       /\ ~heap'[state'.baselineModel].disposed
       /\ state'.studentModel # Null
       /\ state'.studentModel > Len(heap)
       /\ heap'[state'.studentModel].kind = "model"
       /\ ~heap'[state'.studentModel].disposed
       /\ state'.optimizer # Null
       /\ state'.optimizer > Len(heap)
       /\ heap'[state'.optimizer] = NewOptimizer
       /\ state'.step = 0
       /\ lastArch' \notin KnownArchs =>
            /\ heap'[state'.studentModel].layers = heap'[state'.baselineModel].layers
            /\ \E i \in 1..Len(log') :
                 /\ log'[i].msg = "Error creating model"
                 /\ log'[i].isError
                 /\ log'[i].arch = lastArch']_vars

C5_Witness ==
  /\ IsApp(variant)
  /\ loaded
  /\ lastArch = "other"
  /\ ResetsDone >= 2
  /\ heap[state.studentModel].layers = heap[state.baselineModel].layers
  /\ Len(log) >= 2
  /\ log[2].msg = "Error creating model"

\* hidden width of the student in app.js
HiddenWidth(archType) ==
  IF archType = "compression" THEN 64
  ELSE IF archType = "transformation" THEN 256
  ELSE 512

\* C7: the baseline is always flatten -> dense 64 relu -> dense 256 sigmoid
\* -> reshape [16,16,1], whatever was selected; in app.js the student is
\* flatten -> dense W relu -> dense 256 sigmoid -> reshape [16,16,1] with W
\* given by the selected architecture.
C7_Architectures ==
  state.baselineModel # Null =>
    /\ heap[state.baselineModel].layers =
         << [type |-> "flatten", units |-> 0, activation |-> "", targetShape |-> <<16, 16, 1>>],
            [type |-> "dense", units |-> 64, activation |-> "relu", targetShape |-> <<>>],
            [type |-> "dense", units |-> 256, activation |-> "sigmoid", targetShape |-> <<>>],
            [type |-> "reshape", units |-> 0, activation |-> "", targetShape |-> <<16, 16, 1>>] >>
    /\ (IsApp(variant) /\ lastArch \in KnownArchs) =>
         heap[state.studentModel].layers =
           << [type |-> "flatten", units |-> 0, activation |-> "", targetShape |-> <<16, 16, 1>>],
              [type |-> "dense", units |-> HiddenWidth(lastArch), activation |-> "relu",
               targetShape |-> <<>>],
              [type |-> "dense", units |-> 256, activation |-> "sigmoid", targetShape |-> <<>>],
              [type |-> "reshape", units |-> 0, activation |-> "", targetShape |-> <<16, 16, 1>>] >>

C7_Witness ==
  /\ IsApp(variant)
  /\ ResetsDone >= 2
  /\ lastArch = "expansion"
  /\ heap[state.studentModel].layers[2].units = 512
  /\ heap[state.baselineModel].layers[2].units = 64

\* C9: in app.js auto-training is off whenever resetModels returns, and a
\* timer-driven trainStep runs on the models of the latest reset only after
\* auto-training has been turned on again.
C9_ResetStopsAuto ==
  [][IsApp(variant) =>
       /\ ResetRan => ~state'.isAutoTraining
       /\ (StepRan /\ lastStep'.caller = "timer") => autoOnSinceReset'
       /\ state'.isAutoTraining => autoOnSinceReset']_vars

\* reset while auto-training was running: its timer is still pending
C9_Witness ==
  /\ IsApp(variant)
  /\ ResetsDone >= 2
  /\ timers > 0
  /\ ~state.isAutoTraining
  /\ ~autoOnSinceReset

\* C10 as stated: a completed trainStep is displayed iff its step is a
\* multiple of 5 or auto-training is off; every manual step is displayed and
\* of the steps of auto-training exactly every fifth.
C10_Original ==
  (HasStep(variant) /\ lastStep.outcome = "done") =>
    /\ lastStep.rendered <=> (lastStep.step % 5 = 0 \/ ~lastStep.autoAtEntry)
    /\ lastStep.caller = "manual" => lastStep.rendered
    /\ lastStep.caller \in {"toggle", "timer"} =>
         (lastStep.rendered <=> lastStep.step % 5 = 0)

\* C10 amended: a completed trainStep is displayed iff its step is a
\* multiple of 5 or auto-training is off; so every manual step taken while
\* auto-training is off is displayed, and while it is on exactly the steps
\* that are multiples of 5 are, manual ones included.
C10_RenderThrottle ==
  (HasStep(variant) /\ lastStep.outcome = "done") =>
    /\ lastStep.rendered <=> (lastStep.step % 5 = 0 \/ ~lastStep.autoAtEntry)
    /\ (lastStep.caller = "manual" /\ ~lastStep.autoAtEntry) => lastStep.rendered
    /\ lastStep.autoAtEntry => (lastStep.rendered <=> lastStep.step % 5 = 0)

\* a manual step during auto-training that is not displayed
C10_Witness ==
  /\ HasStep(variant)
  /\ lastStep.outcome = "done"
  /\ lastStep.caller = "manual"
  /\ lastStep.autoAtEntry
  /\ lastStep.step % 5 # 0
  /\ ~lastStep.rendered

\* number of pixels of value p in a flattened image
Count(q, p) == Cardinality({i \in 1..Len(q) : q[i] = p})

SameValues(a, b) == \A p \in Pixels : Count(Flat(a), p) = Count(Flat(b), p)

\* C6: sortedMSE is unchanged by a permutation of the pixels of either
\* argument, is 0 exactly when both images hold the same multiset of pixel
\* values, and is the same whether computed with topk (descending) or with
\* sort (ascending).
C6_SortedMSE ==
  lossOut.kind = "eval" =>
    /\ lossOut.op \in {"permuteTrue", "permutePred"} => REq(lossOut.sorted, lossOut.prevSorted)
    /\ (lossOut.sorted.n = 0) <=> SameValues(imgA, imgB)
    /\ REq(sortedMSE("app1", imgA, imgB), sortedMSE("p001", imgA, imgB))

\* a permutation of the prediction that changes the pixel-wise MSE, on
\* images with different multisets
C6_Witness ==
  /\ lossOut.kind = "eval"
  /\ lossOut.op = "permutePred"
  /\ ~SameValues(imgA, imgB)
  /\ lossOut.sorted.n # 0
  /\ ~REq(lossOut.baseline, lossOut.sorted)

\* sum of the squared pixel differences of two images
SquaredError(a, b) ==
  LET f[k \in 0..(Height * Width)] ==
        IF k = 0 THEN 0
        ELSE LET i == ((k - 1) \div Width) + 1
                 j == ((k - 1) % Width) + 1
             IN f[k - 1] + (a[i][j] - b[i][j]) * (a[i][j] - b[i][j])
  IN f[Height * Width]

\* C8: the student's loss is sortedMSE(yTrue, yPred) with weight 1 plus
\* smoothness(yPred) and directionX(yPred), each times a fixed positive
\* constant (0.1 and 0.3 in the first app.js); it has no pixel-wise term, so
\* it does not change when the input's pixels are permuted; the baseline's
\* loss is the pixel-wise MSE of input and prediction.
C8_LossComposition ==
  lossOut.kind = "eval" =>
    /\ LET l1 == Lambda1(variant)
           l2 == Lambda2(variant)
       IN /\ RLess(Rat(0, 1), l1)
          /\ RLess(Rat(0, 1), l2)
          /\ variant = "app1" => (REq(l1, Rat(1, 10)) /\ REq(l2, Rat(3, 10)))
          /\ REq(lossOut.student,
                 RAdd(RAdd(sortedMSE(variant, imgA, imgB), RMul(l1, smoothness(imgB))),
                      RMul(l2, directionX(imgB))))
    /\ lossOut.op = "permuteTrue" => REq(lossOut.student, lossOut.prevStudent)
    /\ REq(lossOut.baseline, Rat(SquaredError(imgA, imgB), Height * Width))

\* the input was permuted, which changed its pixel-wise distance to the
\* prediction, and the prediction is neither smooth nor symmetric
C8_Witness ==
  /\ lossOut.kind = "eval"
  /\ lossOut.op = "permuteTrue"
  /\ smoothness(imgB).n # 0
  /\ directionX(imgB).n # 0
  /\ lossOut.baseline.n # 0
  /\ ~REq(lossOut.student, lossOut.sorted)

\* heap indices of the live (not disposed) objects of a kind
Live(kind) == {i \in 1..Len(heap) : heap[i].kind = kind /\ ~heap[i].disposed}

\* C11: after any sequence of resets the only live models are the current
\* baseline and the current student, the only live optimizers are those of
\* the current generation (everything an earlier resetModels created has
\* been disposed), and the optimizers were created after the models.
C11_NoLeaks ==
  loaded =>
    /\ state.baselineModel # state.studentModel
    /\ Live("model") = {state.baselineModel, state.studentModel}
    /\ Live("optimizer") =
         (IF IsApp(variant) THEN {state.optimizer}
                            ELSE {state.baselineOptimizer, state.studentOptimizer})
    /\ \A o \in Live("optimizer") : \A m \in Live("model") : o > m

\* weight of column j (1..Width): linear from -1 at the first column to +1
\* at the last
ColumnWeight(j) == RAdd(Rat(-1, 1), Rat(2 * (j - 1), Width - 1))

\* sum over all pixels of value times column weight
WeightedSum(y) ==
  LET f[k \in 0..(Height * Width)] ==
        IF k = 0 THEN Rat(0, 1)
        ELSE LET i == ((k - 1) \div Width) + 1
                 j == ((k - 1) % Width) + 1
             IN RAdd(f[k - 1], RMul(Rat(y[i][j], 1), ColumnWeight(j)))
  IN f[Height * Width]

\* cur is prev with two pixels of one row exchanged, the brighter of which
\* went to the right
BrighterMovedRight(prev, cur) ==
  \E i \in 1..Height : \E j1, j2 \in 1..Width :
    /\ j1 < j2
    /\ prev[i][j1] > prev[i][j2]
    /\ cur = [prev EXCEPT ![i][j1] = prev[i][j2], ![i][j2] = prev[i][j1]]

RowConstant(y) == \A i \in 1..Height : \A j1, j2 \in 1..Width : y[i][j1] = y[i][j2]

\* C12: directionX is minus the mean over all pixels of value times column
\* weight, the weight rising linearly from -1 (first column) to +1 (last
\* column) in every row; exchanging two pixels of a row so that the brighter
\* one moves right strictly decreases it, mirroring the image negates it,
\* and it is 0 on an image that is constant along each row.
C12_DirectionX ==
  lossOut.kind = "shape" =>
    /\ REq(lossOut.direction,
           RMul(Rat(-1, 1), RMul(WeightedSum(imgB), Rat(1, Height * Width))))
    /\ (lossOut.op = "swapInRow" /\ BrighterMovedRight(lossOut.prevImage, imgB)) =>
         RLess(lossOut.direction, lossOut.prevDirection)
    /\ lossOut.op = "mirror" =>
         REq(lossOut.direction, RMul(Rat(-1, 1), lossOut.prevDirection))
    /\ RowConstant(imgB) => lossOut.direction.n = 0

\* a brighter pixel was moved to the right in an image that is not constant
\* along its rows
C12_Witness ==
  /\ lossOut.kind = "shape"
  /\ lossOut.op = "swapInRow"
  /\ BrighterMovedRight(lossOut.prevImage, imgB)
  /\ ~RowConstant(imgB)
  /\ lossOut.direction.n # 0
  /\ RLess(lossOut.direction, lossOut.prevDirection)

\* sum of the squared differences of horizontally adjacent pixels
HorizontalSquares(y) ==
  LET f[k \in 0..(Height * (Width - 1))] ==
        IF k = 0 THEN 0
        ELSE LET i == ((k - 1) \div (Width - 1)) + 1
                 j == ((k - 1) % (Width - 1)) + 1
             IN f[k - 1] + (y[i][j] - y[i][j + 1]) * (y[i][j] - y[i][j + 1])
  IN f[Height * (Width - 1)]

\* sum of the squared differences of vertically adjacent pixels
VerticalSquares(y) ==
  LET f[k \in 0..((Height - 1) * Width)] ==
        IF k = 0 THEN 0
        ELSE LET i == ((k - 1) \div Width) + 1
                 j == ((k - 1) % Width) + 1
             IN f[k - 1] + (y[i][j] - y[i + 1][j]) * (y[i][j] - y[i + 1][j])
  IN f[(Height - 1) * Width]

ConstantImage(y) == \A c1, c2 \in Cells : y[c1[1]][c1[2]] = y[c2[1]][c2[2]]

\* C13: smoothness is the mean of the squared differences over all
\* horizontally adjacent pixel pairs plus the mean of the squared differences
\* over all vertically adjacent pairs; it is never negative and is 0 exactly
\* when the image is constant.
C13_Smoothness ==
  lossOut.kind = "shape" =>
    /\ REq(lossOut.smooth,
           RAdd(Rat(HorizontalSquares(imgB), Height * (Width - 1)),
                Rat(VerticalSquares(imgB), (Height - 1) * Width)))
    /\ ~RLess(lossOut.smooth, Rat(0, 1))
    /\ (lossOut.smooth.n = 0) <=> ConstantImage(imgB)

\* an image with a black pixel next to a white one, horizontally and
\* vertically
C13_Witness ==
  /\ lossOut.kind = "shape"
  /\ ~ConstantImage(imgB)
  /\ \E i \in 1..Height : \E j \in 1..(Width - 1) : Abs(imgB[i][j] - imgB[i][j + 1]) = 2
  /\ \E i \in 1..(Height - 1) : \E j \in 1..Width : Abs(imgB[i][j] - imgB[i + 1][j]) = 2
  /\ lossOut.smooth.n > 0

\* C14: in app.js resetModels takes the architecture from its argument when
\* that is a string (the radio's change handler passes the value of the
\* radio just checked); called with the click Event or without argument it
\* takes the value of the checked radio, and with no radio checked a fixed
\* default that createStudentModel accepts.
C14_ArchResolution ==
  [][(IsApp(variant) /\ ResetRan) =>
       /\ ChangeArch => lastArch' = checked'
       /\ ((PageLoad \/ ClickReset) /\ checked # NoArch) => lastArch' = checked
       /\ ((PageLoad \/ ClickReset) /\ checked = NoArch) =>
            /\ lastArch' = (IF variant = "app1" THEN "transformation" ELSE "compression")
            /\ ~createStudentModel(variant, lastArch').threw
            /\ ~\E i \in 1..Len(log') : log'[i].msg = "Error creating model"]_vars

\* Reset clicked on a page without a checked radio
C14_Witness ==
  /\ IsApp(variant)
  /\ loaded
  /\ checked = NoArch
  /\ ResetsDone >= 2
  /\ lastArch \in KnownArchs
  /\ heap[state.studentModel].layers[2].units = HiddenWidth(lastArch)

\* C15: in app.js and part_001 state.step is the number of trainStep
\* invocations since the most recent resetModels: resetModels sets it to 0,
\* every trainStep raises it by exactly 1 before anything else (the step it
\* works with is the raised one), whichever branch it ends in, and nothing
\* else writes it; so it equals the number of updates the current baseline
\* model has received.
C15_StepCounter ==
  [][HasStep(variant) =>
       /\ ResetRan => state'.step = 0
       /\ StepRan =>
            /\ state'.step = state.step + 1
            /\ lastStep'.step = state.step + 1
       /\ (~ResetRan /\ ~StepRan) => state'.step = state.step
       /\ loaded' => state'.step = heap'[state'.baselineModel].updates]_vars

\* the second trainStep after a Reset ended in the error branch
C15_Witness ==
  /\ HasStep(variant)
  /\ ResetsDone >= 2
  /\ lastStep.outcome = "studentError"
  /\ lastStep.step = 2
  /\ state.step = 2

=============================================================================
